---- MODULE Spec2Model ----
(***************************************************************************)
(* claude-usage-widget as state machines: the OAuth token lifecycle        *)
(* manager (src/src/oauth/tokens.py, class TokenManager) under Spec, with  *)
(* get_token_info read step by step under SpecInfo and a re-authentication *)
(* callback that calls the manager again under SpecReentrant; its expiresAt*)
(* conversions under SpecExpiresAt; the usage response of                  *)
(* src/api/storage.py (class UsageStorage) under SpecUsage; the refresh    *)
(* request flag of src/api/app.py under SpecRefresh; the dashboard process *)
(* of src/tray/main.py under SpecDashboard; the threshold notifications of *)
(* src/tray/notifications.py under SpecNotify.                             *)
(*                                                                         *)
(* Python dicts (the credential record, the token response, the two JSON   *)
(* store files) are TLA+ records whose DOMAIN is the set of keys present,  *)
(* so that d.get(k, default), "k in d" and d[k] keep their meaning.        *)
(* Times are whole seconds since the epoch.                                *)
(***************************************************************************)
EXTENDS Integers, FiniteSets, Sequences, TLC

VARIABLES
    credentials,        \* self._credentials: NoCredentials (None) or a dict
    using_claude_code,  \* self._using_claude_code
    on_reauth_needed,   \* self._on_reauth_needed is set (a callback is registered)
    lock,               \* self._lock: 0 when free, else the thread holding it
    claude_file,        \* ~/.claude/.credentials.json (the external store)
    pulse_file,         \* ~/.claude-pulse/credentials.json (the private store)
    now,                \* time.time()
    pc,                 \* per thread: where it is in the operation it runs
    ev,                 \* what the last step did outside the manager's state:
                        \* the POST it issued, the callback it invoked, the
                        \* response it consumed, the value it returned
    race,               \* observer of one round of concurrent get_access_token
                        \* calls: the POSTs issued and the values returned in it
    reauth_required,    \* observer: the access token held when the re-auth
                        \* callback was last called, "-" once store_tokens or
                        \* clear_credentials was called or a refresh succeeded
    expiry,             \* the expiresAt conversions: the value read and what
                        \* lines 83 and 152 made of it
    usage,              \* UsageStorage: self._data, datetime.now() and the
                        \* response get_response() built last
    callback,           \* what the function the application passes to
                        \* set_reauth_callback does when it is called
    info,               \* the get_token_info call in progress: what it has
                        \* read so far, and (observer) the values
                        \* self._credentials held during the call
    last_refresh,       \* observer: the access token a refresh obtained, "-"
                        \* once time advanced or store_tokens or
                        \* clear_credentials was called
    refresh_flag,       \* src/api/app.py: _pending_refresh, datetime.now(), the
                        \* reply of the last request and (observer) the
                        \* request-refresh calls not yet reported
    dashboard,          \* src/tray: self._dashboard_process, the dashboard
                        \* processes and the lock file
    notifier            \* NotificationManager: its settings and fields, and
                        \* the toasts the last check_and_notify showed

\* the variables of the other two state machines
calcVars == <<expiry, usage>>

vars == <<credentials, using_claude_code, on_reauth_needed, lock,
          claude_file, pulse_file, now, pc, ev, race, reauth_required,
          expiry, usage, callback, info, last_refresh,
          refresh_flag, dashboard, notifier>>

\* the variables of the local API's refresh flag and of the tray application
appVars == <<refresh_flag, dashboard, notifier>>

----------------------------------------------------------------------------
(* Bounds of the model *)

NumThreads == 2
Threads == 1..NumThreads

\* The instants the clock is read at. 1000 = 1300 - 300 is the last instant at
\* which a token expiring at 1300 is not yet refreshed, 1001 the first at which
\* it is. A token issued with expires_in = 60 is inside the refresh window at
\* once, one issued with the default 3600 stays outside it.
Instants == {1000, 1001}

----------------------------------------------------------------------------
(* Program constants *)

REFRESH_BUFFER_SECONDS == 300
DEFAULT_EXPIRES_IN == 3600
DEFAULT_SCOPE == "user:inference user:profile"
DEFAULT_TOKEN_TYPE == "Bearer"

----------------------------------------------------------------------------
(* Python values *)

None == "None"                       \* None as a field or a return value
NoCredentials == [none |-> TRUE]     \* self._credentials is None
Absent == [absent |-> TRUE]          \* the file does not exist
Corrupt == [corrupt |-> TRUE]        \* the file exists and is not valid JSON
JsonList == [list |-> TRUE]          \* JSON that is not an object: the list []
JsonNull == [null |-> TRUE]          \* the JSON value null where an object is expected

\* the strings a JSON file carries where a number is expected
JsonStrings == {"soon"}

\* v is an int or a float, not a str
IsNumber(v) == ToString(v) \notin {ToString(str) : str \in JsonStrings}

\* the file exists and json.load gives a value
Parses(f) == f # Absent /\ f # Corrupt

\* the file exists and json.load gives a dict
IsDict(f) == Parses(f) /\ f # JsonList

\* d.get(k, dflt)
Get(d, k, dflt) == IF k \in DOMAIN d THEN d[k] ELSE dflt

\* variant: tests only for the empty string, so None passes
Truthy_unlessEmpty(s) == s # ""

\* bool(s) of an Optional[str]
Truthy(s) == s # None /\ s # ""

RECURSIVE Join(_)
\* ' '.join(list)
Join(list) ==
    IF Len(list) = 0 THEN ""
    ELSE IF Len(list) = 1 THEN list[1]
    ELSE list[1] \o " " \o Join(Tail(list))

----------------------------------------------------------------------------
(* The inputs: store files found at construction, token responses *)

OauthObjects ==
    { [accessToken |-> "at0", refreshToken |-> "rt0", expiresAt |-> 1300000,
       scopes |-> <<"user:inference", "user:profile">>, subscriptionType |-> "max"],
      [accessToken |-> "at0", expiresAt |-> 1300000,
       scopes |-> <<"user:inference">>, subscriptionType |-> "max"],
      [accessToken |-> "at0", refreshToken |-> "rt0"],
      [refreshToken |-> "rt0", expiresAt |-> 1300000] }

\* nested objects that are not what line 78-85 expects: null, and an expiresAt
\* that is a string
OddOauthObjects ==
    { JsonNull, [accessToken |-> "at0", expiresAt |-> "soon"] }

ClaudeFiles ==
    {Absent, Corrupt, JsonList, [userID |-> "u1"]}
    \cup { [claudeAiOauth |-> o, userID |-> "u1"] :
              o \in OauthObjects \cup OddOauthObjects }

PulseFiles ==
    { Absent, Corrupt, JsonList,
      [access_token |-> "at0", refresh_token |-> "rt0", expires_at |-> 1300,
       token_type |-> "Bearer", scope |-> DEFAULT_SCOPE],
      [access_token |-> "at0", refresh_token |-> None, expires_at |-> 900,
       token_type |-> "Bearer", scope |-> DEFAULT_SCOPE],
      [refresh_token |-> "rt0", expires_at |-> 1300,
       token_type |-> "Bearer", scope |-> DEFAULT_SCOPE] }

\* The JSON bodies of a token response (refresh or initial exchange).
TokenDicts ==
    { [access_token |-> a, expires_in |-> 60] : a \in {"at1", "at2"} }
    \cup { [access_token |-> a, refresh_token |-> "rt1",
            scope |-> "user:inference"] : a \in {"at1", "at2"} }
    \cup { [refresh_token |-> "rt1", expires_in |-> 60] }

\* What requests.post() comes back with.
NoBody == [nobody |-> TRUE]
NotJson == [notjson |-> TRUE]        \* a body response.json() cannot parse
Responses ==
    { [kind |-> "error", status |-> 0, body |-> NoBody] }
    \cup { [kind |-> "http", status |-> s, body |-> NoBody] :
             s \in {400, 401, 403, 404, 500} }
    \cup { [kind |-> "http", status |-> 200, body |-> b] :
             b \in TokenDicts \cup {NotJson} }

\* How response.json() ends on a body that is not JSON: requests 2.27 and
\* later raise requests.JSONDecodeError, a RequestException that line 238
\* catches; earlier ones raise a plain ValueError, which nothing catches. The
\* repository pins no version.
JsonErrorOutcomes == {"RequestException", "ValueError"}

----------------------------------------------------------------------------
(* TokenManager *)

\* _load_credentials, the Claude Code branch: the dict built at lines 80-86.
\* The expiresAt values of ClaudeFiles are whole seconds in milliseconds, on
\* which the division of line 83 is exact.
ClaudeCodeCredentials(oauth_data) ==
    [access_token |-> oauth_data.accessToken,
     refresh_token |-> Get(oauth_data, "refreshToken", None),
     expires_at |-> Get(oauth_data, "expiresAt", 0) \div 1000,
     token_type |-> "Bearer",
     scope |-> Join(Get(oauth_data, "scopes", <<>>))]

\* the condition of lines 72-79: the file exists, parses, and carries an accessToken
ClaudeCodeUsable(f) ==
    /\ IsDict(f)
    /\ "claudeAiOauth" \in DOMAIN f
    /\ f.claudeAiOauth # JsonNull
    /\ "accessToken" \in DOMAIN f.claudeAiOauth
    /\ Truthy(f.claudeAiOauth.accessToken)

\* _load_credentials, lines 78-85: how the Claude Code branch ends. Line 78
\* calls .get on what json.load gave and line 79 on the nested value; line 83
\* divides expiresAt by 1000. Line 90 catches neither an AttributeError nor a
\* TypeError.
LoadOutcome(cf) ==
    IF ~Parses(cf) THEN "ok"
    ELSE IF cf = JsonList THEN "AttributeError"
    ELSE IF "claudeAiOauth" \notin DOMAIN cf THEN "ok"
    ELSE IF cf.claudeAiOauth = JsonNull THEN "AttributeError"
    ELSE IF ~Truthy(Get(cf.claudeAiOauth, "accessToken", None)) THEN "ok"
    ELSE IF ~IsNumber(Get(cf.claudeAiOauth, "expiresAt", 0)) THEN "TypeError"
    ELSE "ok"

\* variant: the private store is tried first
LoadCredentials_privateFirst(cf, pf) ==
    IF Parses(pf)
    THEN [credentials |-> pf, using_claude_code |-> FALSE, ok |-> TRUE]
    ELSE IF ClaudeCodeUsable(cf)
    THEN [credentials |-> ClaudeCodeCredentials(cf.claudeAiOauth),
          using_claude_code |-> TRUE, ok |-> TRUE]
    ELSE [credentials |-> NoCredentials, using_claude_code |-> FALSE, ok |-> FALSE]

\* _load_credentials when it raises nothing: the manager's fields after it ran
\* on the two files, and what it returned. Line 98 takes whatever json.load
\* gives.
LoadCredentials(cf, pf) ==
    IF ClaudeCodeUsable(cf)
    THEN [credentials |-> ClaudeCodeCredentials(cf.claudeAiOauth),
          using_claude_code |-> TRUE, ok |-> TRUE]
    ELSE IF Parses(pf)
    THEN [credentials |-> pf, using_claude_code |-> FALSE, ok |-> TRUE]
    ELSE [credentials |-> NoCredentials, using_claude_code |-> FALSE, ok |-> FALSE]

\* variant: any dict counts, with or without an access_token
has_credentials_anyDict(c) == c # NoCredentials

\* has_credentials
has_credentials(c) == c # NoCredentials /\ "access_token" \in DOMAIN c

\* variant: >= in place of >
NeedsRefresh_atBuffer(c, current_time) ==
    current_time >= Get(c, "expires_at", 0) - REFRESH_BUFFER_SECONDS

\* get_access_token, line 178: the token is expired or about to expire
NeedsRefresh(c, current_time) ==
    current_time > Get(c, "expires_at", 0) - REFRESH_BUFFER_SECONDS

\* variant: 400 left out
ReauthStatus_only401(status) == status = 401

\* _refresh_token, line 234: the statuses that signal re-authentication
ReauthStatus(status) == status \in {400, 401}

\* variant: no early return for 403
SignalsReauth_every4xx(resp) ==
    resp.kind = "http" /\ resp.status >= 400 /\ resp.status < 500

\* variant: the test of line 234 left out
SignalsReauth_unlessTransient(resp) ==
    resp.kind = "http" /\ resp.status # 403 /\ resp.status < 500

\* _refresh_token, lines 224-240: whether a response other than 200 makes it
\* call _trigger_reauth. A RequestException goes to line 238; 403 returns at
\* line 229 and a status >= 500 at line 232, before the test of line 234.
SignalsReauth(resp) ==
    IF resp.kind # "http" THEN FALSE
    ELSE IF resp.status = 403 THEN FALSE
    ELSE IF resp.status >= 500 THEN FALSE
    ELSE ReauthStatus(resp.status)

\* variant: a failed refresh returns None
GatReturn_noneOnFailure(c, refreshed) ==
    IF refreshed = "False" THEN None ELSE Get(c, "access_token", None)

\* get_access_token, lines 181-185: the value returned; refreshed is what
\* _refresh_token returned ("none" when it was not called)
GatReturn(c, refreshed) == Get(c, "access_token", None)

\* _trigger_reauth: the number of callback invocations it makes
TriggerReauth == IF on_reauth_needed THEN 1 ELSE 0

\* _update_credentials, lines 248-254: how building the dict ends. The dict
\* display is evaluated in order: tokens['access_token'] first, then the default
\* of tokens.get('refresh_token', ...), which reads self._credentials.get.
UpdateOutcome(c, tokens) ==
    IF "access_token" \notin DOMAIN tokens THEN "KeyError"
    ELSE IF c = NoCredentials \/ c = JsonList THEN "AttributeError"
    ELSE "ok"

\* variant: the held refresh_token is not carried over
UpdatedCredentials_dropsRefreshToken(c, tokens, current_time) ==
    [access_token |-> tokens.access_token,
     refresh_token |-> Get(tokens, "refresh_token", None),
     expires_at |-> current_time + Get(tokens, "expires_in", DEFAULT_EXPIRES_IN),
     token_type |-> Get(tokens, "token_type", DEFAULT_TOKEN_TYPE),
     scope |-> Get(tokens, "scope", DEFAULT_SCOPE)]

\* _update_credentials, lines 245-254: the new credential dict
UpdatedCredentials(c, tokens, current_time) ==
    [access_token |-> tokens.access_token,
     refresh_token |-> Get(tokens, "refresh_token", Get(c, "refresh_token", None)),
     expires_at |-> current_time + Get(tokens, "expires_in", DEFAULT_EXPIRES_IN),
     token_type |-> Get(tokens, "token_type", DEFAULT_TOKEN_TYPE),
     scope |-> Get(tokens, "scope", DEFAULT_SCOPE)]

\* d[k] = v on a dict
Put(d, k, v) == [x \in DOMAIN d \cup {k} |-> IF x = k THEN v ELSE d[x]]

\* _update_claude_code_credentials, lines 149-152: the patched nested object
PatchedOauth(oauth, c) ==
    LET withAccess == Put(oauth, "accessToken", c.access_token)
        withRefresh == IF Truthy(Get(c, "refresh_token", None))
                       THEN Put(withAccess, "refreshToken", c.refresh_token)
                       ELSE withAccess
    IN Put(withRefresh, "expiresAt", Get(c, "expires_at", 0) * 1000)

\* _update_claude_code_credentials: the external file after it ran; io is
\* whether the write of line 154-155 went through ("ok") or failed after the
\* file was opened for writing ("fail", caught at line 157).
UpdatedClaudeFile(f, c, io) ==
    IF ~IsDict(f) THEN f
    ELSE IF "claudeAiOauth" \notin DOMAIN f THEN f
    ELSE IF io = "ok"
    THEN Put(f, "claudeAiOauth", PatchedOauth(f.claudeAiOauth, c))
    ELSE Corrupt

\* variant: the external file is updated whatever the source
SavedClaudeFile_always(f, c, ucc, io) == UpdatedClaudeFile(f, c, io)

\* _save_credentials, lines 119-120: the external file after a save
SavedClaudeFile(f, c, ucc, io) ==
    IF ucc THEN UpdatedClaudeFile(f, c, io) ELSE f

\* variant: the dict is written before its expiry is set
SavedPulseFile_withoutExpiry(c, io) ==
    IF io = "ok" THEN [k \in DOMAIN c \ {"expires_at"} |-> c[k]] ELSE Corrupt

\* _save_credentials, lines 123-136: the private file after a save; io is
\* whether json.dump went through or raised IOError on the opened file.
SavedPulseFile(c, io) == IF io = "ok" THEN c ELSE Corrupt

IoOutcomes == {"ok", "fail"}

\* the writes of a save that failed: of the external file (caught at line
\* 157), of the private file (caught at line 134)
FailedWrites(io1, io2) ==
    (IF io1 = "fail" THEN {"external"} ELSE {})
        \cup (IF io2 = "fail" THEN {"private"} ELSE {})

\* variant: the file is left where it is
RemovedPulseFile_kept(f, io) == f

\* clear_credentials, lines 281-286: the private file after it; io is whether
\* os.remove went through or raised OSError
RemovedPulseFile(f, io) == IF f # Absent /\ io = "ok" THEN Absent ELSE f

\* os.remove is called only on a file that exists
RemoveOutcomes(f) == IF f = Absent THEN {"ok"} ELSE IoOutcomes

\* the outcomes the write of the external file can have in a save: it is
\* written only at lines 154-155
ClaudeIoOutcomes(f, ucc) ==
    IF ucc /\ IsDict(f) /\ "claudeAiOauth" \in DOMAIN f THEN IoOutcomes ELSE {"ok"}

----------------------------------------------------------------------------
(* What a step shows to the outside *)

NoResponse == [kind |-> "none", status |-> 0, body |-> NoBody]

\* op: the operation the step completed ("none": it completed none);
\* post: the POSTs it sent; reauth: the calls of the re-auth callback it made;
\* kind, status, body: the response it consumed; refresh: what _refresh_token
\* returned in the call ("none": not called; "raised": it raised);
\* returned: the value the operation returned ("-": nothing was returned);
\* raised: the exception that left the operation ("none": it returned);
\* caught: the file operations that failed inside it, their exception caught
\* (lines 134, 157, 285);
\* info: the dict get_token_info returned
NoInfo == [noinfo |-> TRUE]

Event(op, post, reauth, resp, refresh, returned) ==
    [op |-> op, post |-> post, reauth |-> reauth, kind |-> resp.kind,
     status |-> resp.status, body |-> resp.body, refresh |-> refresh,
     returned |-> returned, raised |-> "none", caught |-> {},
     info |-> NoInfo]

Raised(op, resp, refresh, exception) ==
    [Event(op, 0, 0, resp, refresh, "-") EXCEPT !.raised = exception]

NoEvent == Event("none", 0, 0, NoResponse, "none", "-")

\* the argument of store_tokens, shown in the place of a response body
Argument(tokens) == [kind |-> "none", status |-> 0, body |-> tokens]

\* The observer of a round: on from the step at which every thread stands at
\* the lock of get_access_token with the held token inside the refresh
\* window, until a thread starts another call.
RaceOff == [on |-> FALSE, posts |-> 0, returned |-> {}]
RaceOn == [on |-> TRUE, posts |-> 0, returned |-> {}]
Observe(r, e) ==
    IF ~r.on THEN r
    ELSE [r EXCEPT !.posts = @ + e.post,
                   !.returned = IF e.returned = "-" THEN @ ELSE @ \cup {e.returned}]

----------------------------------------------------------------------------
(* Initial state: the two store files as the process finds them, and the *)
(* fields of a TokenManager as lines 52-55 set them, before line 56 loads  *)

\* no get_token_info call is in progress
NoRead == [line |-> 0]

NoExpiry == [stage |-> "none"]
NoUsage == [stage |-> "none"]
NoRefresh == [stage |-> "none"]
NoDashboard == [stage |-> "none"]
NoNotifier == [stage |-> "none"]

\* the API server and the tray application are not running
AppFields ==
    /\ refresh_flag = NoRefresh
    /\ dashboard = NoDashboard
    /\ notifier = NoNotifier

\* the manager's own fields at line 55
TokenFields ==
    /\ credentials = NoCredentials
    /\ using_claude_code = FALSE
    /\ on_reauth_needed = FALSE
    /\ lock = 0
    /\ now = 1000
    /\ pc = [t \in Threads |-> "start"]
    /\ ev = NoEvent
    /\ race = RaceOff
    /\ reauth_required = "-"
    /\ info = NoRead
    /\ last_refresh = "-"

\* the application registers a callback that returns without calling the
\* manager, as ClaudePulseTray._trigger_reauth (src/tray/main.py:69-76) does
Init ==
    /\ claude_file \in ClaudeFiles
    /\ pulse_file \in PulseFiles
    /\ TokenFields
    /\ AppFields
    /\ callback = "returns"
    /\ expiry = NoExpiry
    /\ usage = NoUsage

----------------------------------------------------------------------------
(* Operations *)

\* a TokenManager exists
Constructed == \A t \in Threads : pc[t] # "start"

\* "not self._credentials", line 290: None and the empty list are falsy
Falsy(c) == c = NoCredentials \/ c = JsonList

\* get_token_info, lines 293-304: the dict returned. Times are whole seconds,
\* on which int() of line 300 changes nothing.
TokenInfo(c, ucc, current_time) ==
    LET expires_at == Get(c, "expires_at", 0)
        expires_in == IF expires_at - current_time > 0
                      THEN expires_at - current_time ELSE 0
    IN [has_access_token |-> "access_token" \in DOMAIN c,
        has_refresh_token |-> "refresh_token" \in DOMAIN c,
        expires_in_seconds |-> expires_in,
        is_expired |-> current_time > expires_at,
        scope |-> Get(c, "scope", None),
        using_claude_code |-> ucc]

\* Bound: the values self._credentials holds, one after the other, while one
\* get_token_info call is followed
MaxHeld == 2

\* observer: a value assigned to self._credentials during a get_token_info call
Witnessed(i, c) == IF i = NoRead THEN i ELSE [i EXCEPT !.held = @ \cup {c}]

\* the bound on the observer leaves room for another assignment
Witnessable(i) == IF i = NoRead THEN TRUE ELSE Cardinality(i.held) < MaxHeld

\* Bounds: the calls a registered callback can make on the manager
ReentrantCallbacks == {"get_access_token", "store_tokens", "clear_credentials"}

\* _trigger_reauth, lines 261-262, calls a callback that calls the manager
Reenters == on_reauth_needed /\ callback \in ReentrantCallbacks

\* where the thread then stands: at the lock of the operation the callback
\* calls, inside the "with self._lock" of the operation it is in
CallbackCall ==
    CASE callback = "get_access_token" -> "gat_wait"
      [] callback = "store_tokens" -> "st_wait"
      [] callback = "clear_credentials" -> "cc_wait"

\* the step called the callback and the callback has not returned
InCallback(e) == e.op = "none" /\ e.reauth > 0

\* variant: the operation does not wait for the lock
Acquire_noLock(t) == TRUE

\* "with self._lock": the lock can be taken
Acquire(t) == lock = 0

\* TokenManager(): line 56 runs _load_credentials on the two files. ev.returned
\* is what _load_credentials returned. When it raises, no manager exists and
\* the next get_token_manager() constructs again.
TokenManager_init ==
    /\ \A t \in Threads : pc[t] = "start"
    /\ IF LoadOutcome(claude_file) = "ok"
       THEN LET loaded == LoadCredentials(claude_file, pulse_file) IN
            /\ credentials' = loaded.credentials
            /\ using_claude_code' = loaded.using_claude_code
            /\ pc' = [t \in Threads |-> "idle"]
            /\ ev' = Event("__init__", 0, 0, NoResponse, "none",
                           IF loaded.ok THEN "True" ELSE "False")
       ELSE /\ UNCHANGED <<credentials, using_claude_code, pc>>
            /\ ev' = Raised("__init__", NoResponse, "none", LoadOutcome(claude_file))
    /\ UNCHANGED <<on_reauth_needed, lock, claude_file, pulse_file, now, race,
                   reauth_required>>
    /\ UNCHANGED calcVars
    /\ UNCHANGED appVars
    /\ UNCHANGED <<callback, info, last_refresh>>

\* a thread calls get_access_token() and reaches the lock
Call_get_access_token(t) ==
    /\ pc[t] = "idle"
    /\ pc' = [pc EXCEPT ![t] = "gat_wait"]
    /\ ev' = NoEvent
    /\ race' = IF /\ \A u \in Threads : pc'[u] = "gat_wait"
                  /\ has_credentials(credentials)
                  /\ NeedsRefresh(credentials, now)
               THEN RaceOn ELSE RaceOff
    /\ UNCHANGED <<credentials, using_claude_code, on_reauth_needed, lock,
                   claude_file, pulse_file, now, reauth_required>>
    /\ UNCHANGED calcVars
    /\ UNCHANGED appVars
    /\ UNCHANGED <<callback, info, last_refresh>>

\* a thread calls store_tokens(tokens) and reaches the lock
Call_store_tokens(t) ==
    /\ pc[t] = "idle"
    /\ pc' = [pc EXCEPT ![t] = "st_wait"]
    /\ ev' = NoEvent
    /\ race' = RaceOff
    /\ UNCHANGED <<credentials, using_claude_code, on_reauth_needed, lock,
                   claude_file, pulse_file, now, reauth_required>>
    /\ UNCHANGED calcVars
    /\ UNCHANGED appVars
    /\ UNCHANGED <<callback, info, last_refresh>>

\* a thread calls clear_credentials() and reaches the lock
Call_clear_credentials(t) ==
    /\ pc[t] = "idle"
    /\ pc' = [pc EXCEPT ![t] = "cc_wait"]
    /\ ev' = NoEvent
    /\ race' = RaceOff
    /\ UNCHANGED <<credentials, using_claude_code, on_reauth_needed, lock,
                   claude_file, pulse_file, now, reauth_required>>
    /\ UNCHANGED calcVars
    /\ UNCHANGED appVars
    /\ UNCHANGED <<callback, info, last_refresh>>

\* get_access_token, lines 170-185, up to the POST of _refresh_token or, when
\* none is made, to the return
get_access_token(t) ==
    /\ pc[t] = "gat_wait"
    /\ Acquire(t)
    /\ UNCHANGED <<credentials, using_claude_code, on_reauth_needed,
                   claude_file, pulse_file, now>>
    /\ IF ~has_credentials(credentials)
       THEN /\ pc' = [pc EXCEPT ![t] = "idle"]
            /\ lock' = 0
            /\ ev' = Event("get_access_token", 0, 0, NoResponse, "none", None)
       ELSE IF ~NeedsRefresh(credentials, now)
       THEN /\ pc' = [pc EXCEPT ![t] = "idle"]
            /\ lock' = 0
            /\ ev' = Event("get_access_token", 0, 0, NoResponse, "none",
                           GatReturn(credentials, "none"))
       ELSE IF ~Truthy(Get(credentials, "refresh_token", None))
       THEN \* _refresh_token, lines 195-198
            IF Reenters
            THEN /\ pc' = [pc EXCEPT ![t] = CallbackCall]
                 /\ lock' = t
                 /\ ev' = Event("none", 0, TriggerReauth, NoResponse, "False", "-")
            ELSE /\ pc' = [pc EXCEPT ![t] = "idle"]
                 /\ lock' = 0
                 /\ ev' = Event("get_access_token", 0, TriggerReauth, NoResponse,
                                "False", GatReturn(credentials, "False"))
       ELSE \* _refresh_token, lines 201-216: the request goes out
            /\ pc' = [pc EXCEPT ![t] = "gat_post"]
            /\ lock' = t
            /\ ev' = Event("none", 1, 0, NoResponse, "none", "-")
    /\ race' = Observe(race, ev')
    /\ reauth_required' = IF ev'.reauth > 0 THEN credentials.access_token
                          ELSE reauth_required
    /\ UNCHANGED calcVars
    /\ UNCHANGED appVars
    /\ UNCHANGED <<callback, info, last_refresh>>

\* _refresh_token, lines 218-240, and the return of get_access_token: the
\* request comes back (or raises) and the call finishes
refresh_response(t) ==
    /\ pc[t] = "gat_post"
    /\ UNCHANGED <<using_claude_code, on_reauth_needed, now>>
    /\ \E resp \in Responses :
         IF resp.kind = "http" /\ resp.status = 200 /\ resp.body = NotJson
         THEN \* line 219: response.json() raises
              /\ UNCHANGED <<credentials, claude_file, pulse_file>>
              /\ \E json \in JsonErrorOutcomes :
                   ev' = IF json = "RequestException"
                         THEN Event("get_access_token", 0, 0, resp, "False",
                                    GatReturn(credentials, "False"))
                         ELSE Raised("get_access_token", resp, "raised", json)
         ELSE IF resp.kind = "http" /\ resp.status = 200
         THEN IF UpdateOutcome(credentials, resp.body) = "ok"
              THEN LET c == UpdatedCredentials(credentials, resp.body, now) IN
                   /\ credentials' = c
                   /\ \E io1 \in ClaudeIoOutcomes(claude_file, using_claude_code),
                         io2 \in IoOutcomes :
                        /\ claude_file' = SavedClaudeFile(claude_file, c,
                                                          using_claude_code, io1)
                        /\ pulse_file' = SavedPulseFile(c, io2)
                        /\ ev' = [Event("get_access_token", 0, 0, resp, "True",
                                        GatReturn(c, "True"))
                                    EXCEPT !.caught = FailedWrites(io1, io2)]
              ELSE /\ UNCHANGED <<credentials, claude_file, pulse_file>>
                   /\ ev' = Raised("get_access_token", resp, "raised",
                                   UpdateOutcome(credentials, resp.body))
         ELSE /\ UNCHANGED <<credentials, claude_file, pulse_file>>
              /\ ev' = IF SignalsReauth(resp) /\ Reenters
                       THEN Event("none", 0, TriggerReauth, resp, "False", "-")
                       ELSE Event("get_access_token", 0,
                                  IF SignalsReauth(resp) THEN TriggerReauth ELSE 0,
                                  resp, "False", GatReturn(credentials, "False"))
    /\ pc' = [pc EXCEPT ![t] = IF InCallback(ev') THEN CallbackCall ELSE "idle"]
    /\ lock' = IF InCallback(ev') THEN t ELSE 0
    /\ race' = Observe(race, ev')
    /\ reauth_required' = IF ev'.refresh = "True" THEN "-"
                          ELSE IF ev'.reauth > 0 THEN credentials.access_token
                          ELSE reauth_required
    /\ UNCHANGED calcVars
    /\ UNCHANGED appVars
    /\ Witnessable(info)
    /\ info' = Witnessed(info, credentials')
    /\ last_refresh' = IF ev'.refresh = "True" THEN credentials'.access_token
                       ELSE last_refresh
    /\ UNCHANGED callback

\* store_tokens, lines 273-275
store_tokens(t) ==
    /\ pc[t] = "st_wait"
    /\ Acquire(t)
    /\ pc' = [pc EXCEPT ![t] = "idle"]
    /\ UNCHANGED <<using_claude_code, on_reauth_needed, lock, now, race>>
    /\ \E tokens \in TokenDicts :
         IF UpdateOutcome(credentials, tokens) = "ok"
         THEN LET c == UpdatedCredentials(credentials, tokens, now) IN
              /\ credentials' = c
              /\ \E io1 \in ClaudeIoOutcomes(claude_file, using_claude_code),
                    io2 \in IoOutcomes :
                   /\ claude_file' = SavedClaudeFile(claude_file, c,
                                                     using_claude_code, io1)
                   /\ pulse_file' = SavedPulseFile(c, io2)
                   /\ ev' = [Event("store_tokens", 0, 0, Argument(tokens),
                                   "none", "True")
                               EXCEPT !.caught = FailedWrites(io1, io2)]
         ELSE /\ UNCHANGED <<credentials, claude_file, pulse_file>>
              /\ ev' = Raised("store_tokens", Argument(tokens), "none",
                              UpdateOutcome(credentials, tokens))
    /\ reauth_required' = "-"
    /\ UNCHANGED calcVars
    /\ UNCHANGED appVars
    /\ Witnessable(info)
    /\ info' = Witnessed(info, credentials')
    /\ last_refresh' = "-"
    /\ UNCHANGED callback

\* clear_credentials, lines 279-286; io is whether os.remove went through
clear_credentials(t) ==
    /\ pc[t] = "cc_wait"
    /\ Acquire(t)
    /\ pc' = [pc EXCEPT ![t] = "idle"]
    /\ credentials' = NoCredentials
    /\ \E io \in RemoveOutcomes(pulse_file) :
         /\ pulse_file' = RemovedPulseFile(pulse_file, io)
         /\ ev' = [Event("clear_credentials", 0, 0, NoResponse, "none", None)
                     EXCEPT !.caught = IF io = "fail" THEN {"remove"} ELSE {}]
    /\ reauth_required' = "-"
    /\ UNCHANGED <<using_claude_code, on_reauth_needed, lock, claude_file, now,
                   race>>
    /\ UNCHANGED calcVars
    /\ UNCHANGED appVars
    /\ Witnessable(info)
    /\ info' = Witnessed(info, credentials')
    /\ last_refresh' = "-"
    /\ UNCHANGED callback

\* get_token_info, lines 290-304 (takes no lock)
get_token_info(t) ==
    /\ pc[t] = "idle"
    /\ ev' = IF Falsy(credentials)
             THEN Event("get_token_info", 0, 0, NoResponse, "none", None)
             ELSE [Event("get_token_info", 0, 0, NoResponse, "none", "info")
                      EXCEPT !.info = TokenInfo(credentials, using_claude_code, now)]
    /\ UNCHANGED <<credentials, using_claude_code, on_reauth_needed, lock,
                   claude_file, pulse_file, now, pc, race, reauth_required>>
    /\ UNCHANGED calcVars
    /\ UNCHANGED appVars
    /\ UNCHANGED <<callback, info, last_refresh>>

\* get_token_info read by read: between two reads of self._credentials another
\* thread can run. One call is followed at a time. Line 290: the test
get_token_info_290(t) ==
    /\ pc[t] = "idle"
    /\ info = NoRead
    /\ IF Falsy(credentials)
       THEN /\ ev' = Event("get_token_info", 0, 0, NoResponse, "none", None)
            /\ UNCHANGED <<pc, info>>
       ELSE /\ ev' = NoEvent
            /\ pc' = [pc EXCEPT ![t] = "gti_293"]
            /\ info' = [line |-> 293, held |-> {credentials}]
    /\ UNCHANGED <<credentials, using_claude_code, on_reauth_needed, lock,
                   claude_file, pulse_file, now, race, reauth_required>>
    /\ UNCHANGED calcVars
    /\ UNCHANGED appVars
    /\ UNCHANGED <<callback, last_refresh>>

\* a read of self._credentials by .get() or "in" finds None or a list
ReadRaises(c, line) ==
    IF c = NoCredentials
    THEN IF line \in {298, 299} THEN "TypeError" ELSE "AttributeError"
    ELSE IF c = JsonList /\ line \in {293, 302} THEN "AttributeError"
    ELSE "none"

\* the exception of a read leaves get_token_info
ReadFails(t, line) ==
    /\ ReadRaises(credentials, line) # "none"
    /\ ev' = Raised("get_token_info", NoResponse, "none",
                    ReadRaises(credentials, line))
    /\ pc' = [pc EXCEPT ![t] = "idle"]
    /\ info' = NoRead

\* lines 293-295: expires_at is read, then the clock
get_token_info_293(t) ==
    /\ pc[t] = "gti_293"
    /\ \/ ReadFails(t, 293)
       \/ /\ ReadRaises(credentials, 293) = "none"
          /\ ev' = NoEvent
          /\ pc' = [pc EXCEPT ![t] = "gti_298"]
          /\ info' = [line |-> 298, held |-> info.held,
                      expires_at |-> Get(credentials, "expires_at", 0),
                      current_time |-> now]
    /\ UNCHANGED <<credentials, using_claude_code, on_reauth_needed, lock,
                   claude_file, pulse_file, now, race, reauth_required>>
    /\ UNCHANGED calcVars
    /\ UNCHANGED appVars
    /\ UNCHANGED <<callback, last_refresh>>

\* line 298: 'access_token' in self._credentials
get_token_info_298(t) ==
    /\ pc[t] = "gti_298"
    /\ \/ ReadFails(t, 298)
       \/ /\ ReadRaises(credentials, 298) = "none"
          /\ ev' = NoEvent
          /\ pc' = [pc EXCEPT ![t] = "gti_299"]
          /\ info' = [line |-> 299, held |-> info.held,
                      expires_at |-> info.expires_at,
                      current_time |-> info.current_time,
                      has_access_token |-> "access_token" \in DOMAIN credentials]
    /\ UNCHANGED <<credentials, using_claude_code, on_reauth_needed, lock,
                   claude_file, pulse_file, now, race, reauth_required>>
    /\ UNCHANGED calcVars
    /\ UNCHANGED appVars
    /\ UNCHANGED <<callback, last_refresh>>

\* line 299: 'refresh_token' in self._credentials
get_token_info_299(t) ==
    /\ pc[t] = "gti_299"
    /\ \/ ReadFails(t, 299)
       \/ /\ ReadRaises(credentials, 299) = "none"
          /\ ev' = NoEvent
          /\ pc' = [pc EXCEPT ![t] = "gti_302"]
          /\ info' = [line |-> 302, held |-> info.held,
                      expires_at |-> info.expires_at,
                      current_time |-> info.current_time,
                      has_access_token |-> info.has_access_token,
                      has_refresh_token |-> "refresh_token" \in DOMAIN credentials]
    /\ UNCHANGED <<credentials, using_claude_code, on_reauth_needed, lock,
                   claude_file, pulse_file, now, race, reauth_required>>
    /\ UNCHANGED calcVars
    /\ UNCHANGED appVars
    /\ UNCHANGED <<callback, last_refresh>>

\* lines 300-304: scope and _using_claude_code are read and the dict returned
get_token_info_302(t) ==
    /\ pc[t] = "gti_302"
    /\ \/ ReadFails(t, 302)
       \/ /\ ReadRaises(credentials, 302) = "none"
          /\ ev' = [Event("get_token_info", 0, 0, NoResponse, "none", "info")
                      EXCEPT !.info =
                        [has_access_token |-> info.has_access_token,
                         has_refresh_token |-> info.has_refresh_token,
                         expires_in_seconds |->
                             IF info.expires_at - info.current_time > 0
                             THEN info.expires_at - info.current_time ELSE 0,
                         is_expired |-> info.current_time > info.expires_at,
                         scope |-> Get(credentials, "scope", None),
                         using_claude_code |-> using_claude_code]]
          /\ pc' = [pc EXCEPT ![t] = "idle"]
          /\ info' = NoRead
    /\ UNCHANGED <<credentials, using_claude_code, on_reauth_needed, lock,
                   claude_file, pulse_file, now, race, reauth_required>>
    /\ UNCHANGED calcVars
    /\ UNCHANGED appVars
    /\ UNCHANGED <<callback, last_refresh>>

\* set_reauth_callback, line 60
set_reauth_callback ==
    /\ Constructed
    /\ on_reauth_needed' = TRUE
    /\ ev' = NoEvent
    /\ UNCHANGED <<credentials, using_claude_code, lock, claude_file,
                   pulse_file, now, pc, race, reauth_required>>
    /\ UNCHANGED calcVars
    /\ UNCHANGED appVars
    /\ UNCHANGED <<callback, info, last_refresh>>

\* time passes between two readings of time.time()
Tick ==
    /\ Constructed
    /\ \E i \in Instants : i > now /\ now' = i
    /\ ev' = NoEvent
    /\ UNCHANGED <<credentials, using_claude_code, on_reauth_needed, lock,
                   claude_file, pulse_file, pc, race, reauth_required>>
    /\ UNCHANGED calcVars
    /\ UNCHANGED appVars
    /\ last_refresh' = "-"
    /\ UNCHANGED <<callback, info>>

Next ==
    \/ TokenManager_init
    \/ \E t \in Threads : Call_get_access_token(t)
    \/ \E t \in Threads : Call_store_tokens(t)
    \/ \E t \in Threads : Call_clear_credentials(t)
    \/ \E t \in Threads : get_access_token(t)
    \/ \E t \in Threads : refresh_response(t)
    \/ \E t \in Threads : store_tokens(t)
    \/ \E t \in Threads : clear_credentials(t)
    \/ \E t \in Threads : get_token_info(t)
    \/ set_reauth_callback
    \/ Tick

Spec == Init /\ [][Next]_vars

\* The manager under an application whose re-auth callback calls the manager.
\* A thread at a free lock takes it in the end, and a request that went out
\* comes back.
InitReentrant ==
    /\ claude_file = Absent
    /\ pulse_file \in PulseFiles
    /\ TokenFields
    /\ AppFields
    /\ callback \in ReentrantCallbacks
    /\ expiry = NoExpiry
    /\ usage = NoUsage

Fairness ==
    \A t \in Threads :
        /\ SF_vars(get_access_token(t))
        /\ SF_vars(store_tokens(t))
        /\ SF_vars(clear_credentials(t))
        /\ WF_vars(refresh_response(t))

SpecReentrant == InitReentrant /\ [][Next]_vars /\ Fairness

\* the manager with get_token_info read by read
NextInfo ==
    \/ TokenManager_init
    \/ \E t \in Threads : Call_get_access_token(t)
    \/ \E t \in Threads : Call_store_tokens(t)
    \/ \E t \in Threads : Call_clear_credentials(t)
    \/ \E t \in Threads : get_access_token(t)
    \/ \E t \in Threads : refresh_response(t)
    \/ \E t \in Threads : store_tokens(t)
    \/ \E t \in Threads : clear_credentials(t)
    \/ \E t \in Threads : get_token_info_290(t)
    \/ \E t \in Threads : get_token_info_293(t)
    \/ \E t \in Threads : get_token_info_298(t)
    \/ \E t \in Threads : get_token_info_299(t)
    \/ \E t \in Threads : get_token_info_302(t)
    \/ set_reauth_callback
    \/ Tick

SpecInfo == Init /\ [][NextInfo]_vars

----------------------------------------------------------------------------
(* The expiresAt conversions: lines 83 and 152 of tokens.py *)

\* the variables of the token manager and its files
tokenVars == <<credentials, using_claude_code, on_reauth_needed, lock,
               claude_file, pulse_file, now, pc, ev, race, reauth_required,
               callback, info, last_refresh>>

\* A Python float is an IEEE 754 double: 53 significant bits, every operation
\* rounded to the nearest double, ties to even.
MantissaBits == 53

\* Bounds: the expiresAt values read, seconds * 1000 + 0..MaxMillis. 1073741824
\* is 2^30; 1300 and 1700000000 are a token of the token model and one of today.
ExpirySeconds == {0, 1, 16, 1300, 1073741824, 1700000000}
MaxMillis == 24

\* An int of the JSON file, held as thousands and units (k * 1000 + u): TLC's
\* integers are 32 bits wide and an expiresAt of today takes 41.
Millis(k, u) == [k |-> k, u |-> u]

RECURSIVE BitLength(_)
\* int.bit_length()
BitLength(n) == IF n = 0 THEN 0 ELSE 1 + BitLength(n \div 2)

RECURSIVE PairBitLength(_, _)
\* bit_length() of k * 1000 + u
PairBitLength(k, u) ==
    IF k = 0 /\ u = 0 THEN 0
    ELSE 1 + PairBitLength(k \div 2, (u + 1000 * (k % 2)) \div 2)

RECURSIVE FractionBits(_, _, _)
\* Long division of rem / 1000 in binary, until sig significant bits have
\* become MantissaBits: the fraction bits, and the remainder left.
FractionBits(rem, sig, bits) ==
    IF sig >= MantissaBits THEN [bits |-> bits, rem |-> rem]
    ELSE LET b == IF 2 * rem >= 1000 THEN 1 ELSE 0
         IN FractionBits(2 * rem - 1000 * b,
                         IF sig > 0 \/ b = 1 THEN sig + 1 ELSE sig,
                         Append(bits, b))

\* one unit in the last place added to a fraction: its bits, and the carry
\* into the integer part
Increment(bits) ==
    LET zeros == {i \in 1..Len(bits) : bits[i] = 0}
        last == CHOOSE i \in zeros : \A j \in zeros : j <= i
    IN IF zeros = {} THEN [bits |-> [i \in 1..Len(bits) |-> 0], carry |-> 1]
       ELSE [bits |-> [i \in 1..Len(bits) |->
                         IF i < last THEN bits[i] ELSE IF i = last THEN 1 ELSE 0],
             carry |-> 0]

\* line 83, expiresAt / 1000: the float nearest to the quotient, as its
\* integer part and the bits of its fraction
ExpiresAtSeconds(ms) ==
    IF ms.k = 0 /\ ms.u = 0 THEN [int |-> 0, frac |-> <<>>]
    ELSE LET d == FractionBits(ms.u, BitLength(ms.k), <<>>)
             lsb == IF d.bits = <<>> THEN ms.k % 2 ELSE d.bits[Len(d.bits)]
             up == 2 * d.rem > 1000 \/ (2 * d.rem = 1000 /\ lsb = 1)
             inc == Increment(d.bits)
         IN IF up THEN [int |-> ms.k + inc.carry, frac |-> inc.bits]
            ELSE [int |-> ms.k, frac |-> d.bits]

RECURSIVE TimesThousandFrom(_, _, _, _)
\* bits[1..i] times 1000 plus the carry c of the bits after them, done from the
\* last bit up: out is the product's fraction so far
TimesThousandFrom(bits, i, c, out) ==
    IF i = 0 THEN [bits |-> out, carry |-> c]
    ELSE IF (1000 * bits[i] + c) % 2 = 0
    THEN TimesThousandFrom(bits, i - 1, (1000 * bits[i] + c) \div 2, <<0>> \o out)
    ELSE TimesThousandFrom(bits, i - 1, (1000 * bits[i] + c) \div 2, <<1>> \o out)

\* a fraction times 1000, exactly: the fraction bits of the product, and the
\* carry into its integer part
TimesThousand(bits) == TimesThousandFrom(bits, Len(bits), 0, <<>>)

\* the zero bits a fraction starts with
LeadingZeros(bits) ==
    IF \A i \in 1..Len(bits) : bits[i] = 0 THEN Len(bits)
    ELSE (CHOOSE i \in 1..Len(bits) :
              bits[i] = 1 /\ \A j \in 1..(i - 1) : bits[j] = 0) - 1

\* line 152, int(expires_at * 1000): the exact product k * 1000 + u + 0.frac
\* is rounded to MantissaBits significant bits, and int() drops what fraction
\* is left. The integer part grows by one when the rounding goes up through
\* a fraction of ones.
ExpiresAtMillis(x) ==
    LET p == TimesThousand(x.frac)
        k == x.int
        u == p.carry
        frac == p.bits
        len == PairBitLength(k, u)
        keep == IF len > 0 THEN MantissaBits - len
                ELSE LeadingZeros(frac) + MantissaBits
    IN IF keep >= Len(frac) THEN Millis(k, u)
       ELSE LET guard == frac[keep + 1]
                sticky == \E i \in (keep + 2)..Len(frac) : frac[i] = 1
                lsb == IF keep = 0 THEN u % 2 ELSE frac[keep]
                up == guard = 1 /\ (sticky \/ lsb = 1)
                carries == up /\ \A i \in 1..keep : frac[i] = 1
            IN IF ~carries THEN Millis(k, u)
               ELSE IF u = 999 THEN Millis(k + 1, 0)
               ELSE Millis(k, u + 1)

InitExpiresAt ==
    /\ claude_file = Absent
    /\ pulse_file = Absent
    /\ TokenFields
    /\ AppFields
    /\ callback = "returns"
    /\ expiry = NoExpiry
    /\ usage = NoUsage

\* _load_credentials, line 83, on an expiresAt of the external file
load_expiresAt ==
    /\ expiry.stage \in {"none", "written"}
    /\ \E k \in ExpirySeconds, u \in 0..MaxMillis :
         expiry' = [stage |-> "loaded", expiresAt |-> Millis(k, u),
                    expires_at |-> ExpiresAtSeconds(Millis(k, u))]
    /\ UNCHANGED tokenVars
    /\ UNCHANGED appVars
    /\ UNCHANGED usage

\* _update_claude_code_credentials, line 152, on the expires_at just loaded
write_expiresAt ==
    /\ expiry.stage = "loaded"
    /\ expiry' = [stage |-> "written", expiresAt |-> expiry.expiresAt,
                  expires_at |-> expiry.expires_at,
                  written |-> ExpiresAtMillis(expiry.expires_at)]
    /\ UNCHANGED tokenVars
    /\ UNCHANGED appVars
    /\ UNCHANGED usage

NextExpiresAt == load_expiresAt \/ write_expiresAt

SpecExpiresAt == InitExpiresAt /\ [][NextExpiresAt]_vars

----------------------------------------------------------------------------
(* UsageStorage (src/api/storage.py): the stored snapshot and the response *)
(* computed from it. An Optional field that is None is a key that is not   *)
(* there. Datetimes are whole hours, hour 0 a Monday 00:00; the floats     *)
(* of the pacing arithmetic are exact fractions n / d. A datetime is the   *)
(* hour its fields show (wall) and, when it is timezone-aware, its         *)
(* utcoffset in hours; datetime.now() is naive, in the zone of the host.   *)

WEEK_START_DAY == 3
WEEK_START_HOUR == 8
\* total_week_seconds, lines 130 and 148, in hours
HoursPerWeek == 168

\* Bounds: the instants datetime.now() is read at. 80 is a Thursday 08:00, 122
\* a quarter and 164 a half of the week that starts there, 79 the hour before.
UsageInstants == {79, 80, 81, 122, 164, 206}

\* Bounds: the fields of the snapshots POSTed to /api/usage.
ResetSeconds == {<<>>, <<0>>, <<59>>, <<3661>>, <<5400>>}
WeeklyPercents == {<<>>, <<0>>, <<50>>, <<100>>}
\* naive datetimes, and aware ones as an ISO string ending in Z parses to
ResetTimes ==
    { <<>>, <<[wall |-> 80]>>, <<[wall |-> 248]>>, <<[wall |-> 290]>>,
      <<[wall |-> 500]>>, <<[wall |-> 126, utcoffset |-> 0]>>,
      <<[wall |-> 248, utcoffset |-> 0]>> }
\* Bounds: the UTC offset, in hours, of the zone the server runs in
LocalOffsets == {0, -5}
PageLoadTimes == {<<>>, <<60>>}
ModelLimits ==
    { <<>>, << <<>> >>,
      << <<[model_name |-> "sonnet", usage_percent |-> 10]>> >>,
      << <<[model_name |-> "sonnet", usage_percent |-> 10],
           [model_name |-> "all", usage_percent |-> 50],
           [model_name |-> "all", usage_percent |-> 75]>> >> }

\* a field that is set unless the option is empty
Optional(d, k, option) == IF option = <<>> THEN d ELSE Put(d, k, option[1])

\* UsageData (src/api/models.py)
UsageDatas ==
    { Optional(Optional(Optional(Optional(Optional(
          [session_usage_percent |-> 40, timestamp |-> 70],
          "session_reset_seconds", s), "weekly_usage_percent", w),
          "weekly_reset_time", t), "model_limits", l), "page_load_time", p) :
        s \in ResetSeconds, w \in WeeklyPercents, t \in ResetTimes,
        l \in ModelLimits, p \in PageLoadTimes }

NoData == [nodata |-> TRUE]          \* self._data is None
NoUsageResponse == [noresponse |-> TRUE]

\* a float as the fraction n / d, d > 0
Fraction(n, d) == [n |-> n, d |-> d]

\* max(0, min(100, percent)), line 134
Clamp(percent) ==
    IF percent.n > 100 * percent.d THEN Fraction(100, 1)
    ELSE IF percent.n < 0 THEN Fraction(0, 1)
    ELSE percent

\* _calculate_week_elapsed_percent; weekly_reset_time is <<>> for None
calculate_week_elapsed_percent(weekly_reset_time, clock) ==
    IF weekly_reset_time # <<>>
    THEN LET week_end == weekly_reset_time[1].wall    \* lines 123-124: tzinfo dropped
             week_start == week_end - HoursPerWeek
             elapsed == clock - week_start
         IN Clamp(Fraction(elapsed * 100, HoursPerWeek))
    ELSE LET weekday == (clock \div 24) % 7
             days_since_thursday == (weekday - WEEK_START_DAY) % 7
             at_eight == clock - (clock % 24) + WEEK_START_HOUR
             this_week == at_eight - 24 * days_since_thursday
             week_start == IF clock < this_week THEN this_week - HoursPerWeek
                           ELSE this_week
             elapsed == clock - week_start
         IN Fraction(elapsed * 100, HoursPerWeek)

RECURSIVE FirstAll(_)
\* lines 73-76: the usage_percent of the first limit named 'all', <<>> if none
FirstAll(limits) ==
    IF limits = <<>> THEN <<>>
    ELSE IF Head(limits).model_name = "all" THEN <<Head(limits).usage_percent>>
    ELSE FirstAll(Tail(limits))

\* variant: a weekly_usage_percent of 0 counts as not set
WeeklyPercent_unlessZero(data) ==
    IF "weekly_usage_percent" \in DOMAIN data /\ data.weekly_usage_percent # 0
    THEN <<data.weekly_usage_percent>>
    ELSE IF "model_limits" \in DOMAIN data /\ data.model_limits # <<>>
    THEN FirstAll(data.model_limits)
    ELSE <<>>

\* lines 70-76: the weekly percent, from the snapshot or from its model limits
WeeklyPercent(data) ==
    IF "weekly_usage_percent" \in DOMAIN data THEN <<data.weekly_usage_percent>>
    ELSE IF "model_limits" \in DOMAIN data /\ data.model_limits # <<>>
    THEN FirstAll(data.model_limits)
    ELSE <<>>

\* variant: a ratio of exactly 1.0 counts as under
BudgetStatus_underAtOne(pacing_ratio) ==
    IF pacing_ratio.n <= pacing_ratio.d THEN "under" ELSE "over"

\* line 84: "under" if pacing_ratio < 1.0 else "over"
BudgetStatus(pacing_ratio) ==
    IF pacing_ratio.n < pacing_ratio.d THEN "under" ELSE "over"

\* lines 79-84: pacing_ratio and budget_status set on the response
Pacing(response, weekly_percent, week_elapsed) ==
    IF weekly_percent # <<>> /\ week_elapsed.n > 0
    THEN LET pacing_ratio == Fraction(weekly_percent[1] * week_elapsed.d,
                                      week_elapsed.n)
         IN Put(Put(response, "pacing_ratio", pacing_ratio),
                "budget_status", BudgetStatus(pacing_ratio))
    ELSE Put(response, "budget_status", "unknown")

\* variant: the minutes are not reduced modulo the hour
ResetFormatted_allMinutes(data) ==
    IF "session_reset_seconds" \notin DOMAIN data THEN <<>>
    ELSE IF data.session_reset_seconds = 0 THEN <<>>
    ELSE << ToString(data.session_reset_seconds \div 3600) \o "h "
            \o ToString(data.session_reset_seconds \div 60) \o "m" >>

\* lines 87-91: f"{hours}h {minutes}m", <<>> when session_reset_seconds is
\* None or 0
ResetFormatted(data) ==
    IF "session_reset_seconds" \notin DOMAIN data THEN <<>>
    ELSE IF data.session_reset_seconds = 0 THEN <<>>
    ELSE << ToString(data.session_reset_seconds \div 3600) \o "h "
            \o ToString((data.session_reset_seconds % 3600) \div 60) \o "m" >>

\* get_response: the UsageResponse built from self._data at the given time
Response(data, clock) ==
    IF data = NoData
    THEN [session_usage_percent |-> 0,
          week_elapsed_percent |-> calculate_week_elapsed_percent(<<>>, clock),
          budget_status |-> "unknown"]
    ELSE LET weekly_reset_time ==
                 IF "weekly_reset_time" \in DOMAIN data
                 THEN <<data.weekly_reset_time>> ELSE <<>>
             week_elapsed == calculate_week_elapsed_percent(weekly_reset_time, clock)
             weekly_percent == WeeklyPercent(data)
             base == [session_usage_percent |-> data.session_usage_percent,
                      week_elapsed_percent |-> week_elapsed,
                      last_updated |-> data.timestamp]
             copied ==
                 Optional(Optional(Optional(Optional(Optional(Optional(base,
                     "session_reset_seconds",
                     IF "session_reset_seconds" \in DOMAIN data
                     THEN <<data.session_reset_seconds>> ELSE <<>>),
                     "session_reset_formatted", ResetFormatted(data)),
                     "weekly_usage_percent", weekly_percent),
                     "weekly_reset_time", weekly_reset_time),
                     "model_limits",
                     IF "model_limits" \in DOMAIN data
                     THEN <<data.model_limits>> ELSE <<>>),
                     "page_load_time",
                     IF "page_load_time" \in DOMAIN data
                     THEN <<data.page_load_time>> ELSE <<>>)
         IN Pacing(copied, weekly_percent, week_elapsed)

InitUsage ==
    /\ claude_file = Absent
    /\ pulse_file = Absent
    /\ TokenFields
    /\ AppFields
    /\ callback = "returns"
    /\ expiry = NoExpiry
    /\ \E zone \in LocalOffsets :
         usage = [data |-> NoData, clock |-> 79, zone |-> zone,
                  response |-> NoUsageResponse]

\* update, lines 44-47: a snapshot arrives at POST /api/usage
update ==
    /\ \E data \in UsageDatas :
         usage' = [usage EXCEPT !.data = data, !.response = NoUsageResponse]
    /\ UNCHANGED tokenVars
    /\ UNCHANGED appVars
    /\ UNCHANGED expiry

\* get_response, lines 53-105, at GET /api/usage
get_response ==
    /\ usage' = [usage EXCEPT !.response = Response(usage.data, usage.clock)]
    /\ UNCHANGED tokenVars
    /\ UNCHANGED appVars
    /\ UNCHANGED expiry

\* time passes between two readings of datetime.now()
TickUsage ==
    /\ \E i \in UsageInstants :
         /\ i > usage.clock
         /\ usage' = [usage EXCEPT !.clock = i, !.response = NoUsageResponse]
    /\ UNCHANGED tokenVars
    /\ UNCHANGED appVars
    /\ UNCHANGED expiry

NextUsage == update \/ get_response \/ TickUsage

SpecUsage == InitUsage /\ [][NextUsage]_vars

----------------------------------------------------------------------------
(* The refresh flag of the local API (src/api/app.py). The handlers are    *)
(* coroutines without an await: the event loop runs each as one step.      *)

\* Bound: the last instant datetime.now() is read at
MaxClock == 6

\* no manager is constructed, the calculations are not started
TokenIdle ==
    /\ claude_file = Absent
    /\ pulse_file = Absent
    /\ TokenFields
    /\ callback = "returns"
    /\ expiry = NoExpiry
    /\ usage = NoUsage

\* line 13: _pending_refresh = None, <<>> here
InitRefresh ==
    /\ TokenIdle
    /\ dashboard = NoDashboard
    /\ notifier = NoNotifier
    /\ refresh_flag = [pending |-> <<>>, clock |-> 0, requests |-> {},
                  reply |-> [op |-> "none"]]

\* request_time.isoformat(), line 72
IsoFormat(time) == "T" \o ToString(time)

\* request_refresh, lines 58-63; requests is the observer
request_refresh ==
    /\ refresh_flag' = [refresh_flag EXCEPT
                      !.pending = <<refresh_flag.clock>>,
                      !.requests = @ \cup {refresh_flag.clock},
                      !.reply = [op |-> "request_refresh", status |-> "ok"]]
    /\ UNCHANGED tokenVars
    /\ UNCHANGED calcVars
    /\ UNCHANGED <<dashboard, notifier>>

\* variant: the request stays pending after it was reported
PendingAfterCheck_kept(pending) == pending

\* line 71: _pending_refresh = None
PendingAfterCheck(pending) == <<>>

\* check_refresh, lines 66-74
check_refresh ==
    /\ IF refresh_flag.pending # <<>>
       THEN refresh_flag' = [refresh_flag EXCEPT
                          !.pending = PendingAfterCheck(refresh_flag.pending),
                          !.requests = {},
                          !.reply = [op |-> "check_refresh",
                                     refresh_requested |-> TRUE,
                                     requested_at |->
                                         IsoFormat(refresh_flag.pending[1])]]
       ELSE refresh_flag' = [refresh_flag EXCEPT
                          !.reply = [op |-> "check_refresh",
                                     refresh_requested |-> FALSE]]
    /\ UNCHANGED tokenVars
    /\ UNCHANGED calcVars
    /\ UNCHANGED <<dashboard, notifier>>

\* time passes between two readings of datetime.now()
TickRefresh ==
    /\ refresh_flag.clock < MaxClock
    /\ refresh_flag' = [refresh_flag EXCEPT !.clock = @ + 1,
                                           !.reply = [op |-> "none"]]
    /\ UNCHANGED tokenVars
    /\ UNCHANGED calcVars
    /\ UNCHANGED <<dashboard, notifier>>

NextRefresh == request_refresh \/ check_refresh \/ TickRefresh

SpecRefresh == InitRefresh /\ [][NextRefresh]_vars

----------------------------------------------------------------------------
(* The dashboard process (src/tray/main.py, src/tray/dashboard_runner.py).  *)
(* A process is "starting" from Popen until its window exists and the lock *)
(* file is written, "shown" from then on, "exited" after it ended.         *)

\* Bound: the dashboard processes launched in a run
MaxLaunches == 4
Dashboards == 1..MaxLaunches

\* self._dashboard_process is None (line 36), the lock file does not exist
NoProcess == 0
NoLockFile == 0

InitDashboard ==
    /\ TokenIdle
    /\ refresh_flag = NoRefresh
    /\ notifier = NoNotifier
    /\ dashboard = [process |-> NoProcess,
                    state |-> [d \in Dashboards |-> "none"],
                    lock_file |-> NoLockFile,
                    launched |-> NoProcess]

\* poll() is None, line 144-145
Polls(d) == d.state[d.process] \in {"starting", "shown"}

\* _is_dashboard_running, lines 140-164: what it returns. The lock file holds
\* the handle of a window, never the empty string.
IsDashboardRunning(d) ==
    IF d.process # NoProcess /\ Polls(d) /\ d.lock_file # NoLockFile THEN TRUE
    ELSE d.lock_file # NoLockFile

\* line 151: a stored process that has exited is forgotten
ProcessAfterPoll(d) ==
    IF d.process # NoProcess /\ ~Polls(d) THEN NoProcess ELSE d.process

\* the process Popen starts next
NextDashboard(d) == CHOOSE n \in Dashboards :
                       /\ d.state[n] = "none"
                       /\ \A k \in Dashboards : d.state[k] = "none" => n <= k

\* _on_open_dashboard, lines 123-138: "Open Dashboard" is activated.
\* launched is the process the activation started (NoProcess: none).
\* _bring_dashboard_to_front changes nothing of this state.
on_open_dashboard ==
    /\ IF IsDashboardRunning(dashboard)
       THEN dashboard' = [dashboard EXCEPT !.process = ProcessAfterPoll(dashboard),
                                           !.launched = NoProcess]
       ELSE /\ \E n \in Dashboards : dashboard.state[n] = "none"
            /\ LET n == NextDashboard(dashboard) IN
               dashboard' = [dashboard EXCEPT !.process = n,
                                              !.state[n] = "starting",
                                              !.launched = n]
    /\ UNCHANGED tokenVars
    /\ UNCHANGED calcVars
    /\ UNCHANGED <<refresh_flag, notifier>>

\* write_hwnd, dashboard_runner.py lines 106-130: 100 ms after the window was
\* created the process writes its handle to the lock file
write_hwnd(n) ==
    /\ dashboard.state[n] = "starting"
    /\ dashboard' = [dashboard EXCEPT !.state[n] = "shown", !.lock_file = n,
                                      !.launched = NoProcess]
    /\ UNCHANGED tokenVars
    /\ UNCHANGED calcVars
    /\ UNCHANGED <<refresh_flag, notifier>>

\* the dashboard ends: cleanup_lock, dashboard_runner.py lines 41-47 and
\* 145-148, removes the lock file whichever process wrote it
dashboard_exit(n) ==
    /\ dashboard.state[n] \in {"starting", "shown"}
    /\ dashboard' = [dashboard EXCEPT !.state[n] = "exited",
                                      !.lock_file = NoLockFile,
                                      !.launched = NoProcess]
    /\ UNCHANGED tokenVars
    /\ UNCHANGED calcVars
    /\ UNCHANGED <<refresh_flag, notifier>>

NextDashboards ==
    \/ on_open_dashboard
    \/ \E n \in Dashboards : write_hwnd(n)
    \/ \E n \in Dashboards : dashboard_exit(n)

SpecDashboard == InitDashboard /\ [][NextDashboards]_vars

----------------------------------------------------------------------------
(* Threshold notifications (src/tray/notifications.py). The tray's poll     *)
(* loop, src/tray/main.py lines 99-121, calls check_and_notify with the    *)
(* session percent and the pacing ratio of every response it fetched.      *)
(* Percents are whole numbers, pacing ratios are in hundredths.            *)

\* NotificationSettings, lines 36-43: the switches a settings file can hold
Settings == [enabled : BOOLEAN, threshold_90 : BOOLEAN, threshold_95 : BOOLEAN,
             reset_alert : BOOLEAN, pace_warning : BOOLEAN,
             pace_threshold : {20}]

\* the session percents and pacing ratios the poll loop passes on
SessionPercents == {0, 5, 50, 89, 90, 94, 95, 100}
PacingRatios == {<<>>, <<100>>, <<120>>, <<150>>}

\* NotificationManager.__init__, lines 84-103. available: a toast library
\* was imported (HAS_WINOTIFY or a ToastNotifier was made). session is the
\* argument of the last call, toasts are the toasts the last call showed.
InitNotify ==
    /\ TokenIdle
    /\ refresh_flag = NoRefresh
    /\ dashboard = NoDashboard
    /\ \E settings \in Settings, available \in BOOLEAN :
          notifier = [settings |-> settings,
                      available |-> available,
                      last_notification_type |-> "None",
                      last_usage_percent |-> 0,
                      session |-> <<>>,
                      toasts |-> {}]

\* _can_notify, lines 105-109
CanNotify(n) == IF ~n.settings.enabled THEN FALSE ELSE n.available

\* lines 168-196: the toast of the if / elif chain, "None" if it shows none
ThresholdToast(n, session_percent) ==
    IF n.last_usage_percent >= 50 /\ session_percent < 10
    THEN IF n.settings.reset_alert THEN "reset" ELSE "None"
    ELSE IF session_percent >= 90 /\ n.last_usage_percent < 90
    THEN IF n.settings.threshold_90 THEN "threshold_90" ELSE "None"
    ELSE IF session_percent >= 95 /\ n.last_usage_percent < 95
    THEN IF n.settings.threshold_95 THEN "threshold_95" ELSE "None"
    ELSE "None"

\* lines 198-207: the pace warning is shown, given the type of the last
\* notification after the chain above
PaceToast(n, last_type, pacing_ratio) ==
    /\ pacing_ratio # <<>>
    /\ n.settings.pace_warning
    /\ pacing_ratio[1] >= 100 + n.settings.pace_threshold
    /\ last_type # "pace"

\* check_and_notify, lines 153-209
check_and_notify(session_percent, pacing_ratio) ==
    /\ IF ~CanNotify(notifier)
       THEN notifier' = [notifier EXCEPT !.session = <<session_percent>>,
                                         !.toasts = {}]
       ELSE LET toast == ThresholdToast(notifier, session_percent)
                type == IF toast = "None" THEN notifier.last_notification_type
                        ELSE toast
                pace == PaceToast(notifier, type, pacing_ratio)
            IN notifier' = [notifier EXCEPT
                   !.session = <<session_percent>>,
                   !.toasts = (IF toast = "None" THEN {} ELSE {toast})
                              \cup (IF pace THEN {"pace"} ELSE {}),
                   !.last_notification_type = IF pace THEN "pace" ELSE type,
                   !.last_usage_percent = session_percent]
    /\ UNCHANGED tokenVars
    /\ UNCHANGED calcVars
    /\ UNCHANGED <<refresh_flag, dashboard>>

NextNotify ==
    \E session_percent \in SessionPercents, pacing_ratio \in PacingRatios :
        check_and_notify(session_percent, pacing_ratio)

SpecNotify == InitNotify /\ [][NextNotify]_vars

----------------------------------------------------------------------------
(* Properties *)

\* the re-auth callback is called once if one is registered
Signalled(e) == e.reauth = (IF on_reauth_needed THEN 1 ELSE 0)

Held(c) == c # NoCredentials /\ "access_token" \in DOMAIN c

NoRefreshToken(c) ==
    "refresh_token" \notin DOMAIN c \/ c.refresh_token \in {None, ""}

InWindow(c, time) == time > Get(c, "expires_at", 0) - 300

\* thread t leaves the lock queue of get_access_token in this step
Enters(t) == pc[t] = "gat_wait" /\ pc'[t] # "gat_wait"

\* C1: when every thread calls get_access_token() concurrently while the held
\* token is inside the refresh window, the round issues at most one POST in
\* total and all calls return the same access token.
C1_OneRefreshPerRound ==
    (race.on /\ \A t \in Threads : pc[t] = "idle") =>
        race.posts <= 1 /\ Cardinality(race.returned) = 1

\* C2: at most one refresh request is in flight, and between a caller's expiry
\* check and its return no other thread's store_tokens, clear_credentials or
\* get_access_token acts: the credential, its source flag and both files stay
\* as they are, and no other POST is sent.
C2_WholeSequenceUnderLock ==
    /\ [](Cardinality({t \in Threads : pc[t] = "gat_post"}) <= 1)
    /\ [][\A t \in Threads :
            (pc[t] = "gat_post" /\ pc'[t] = "gat_post") =>
                /\ UNCHANGED <<credentials, using_claude_code, claude_file, pulse_file>>
                /\ ev'.post = 0
                /\ ev'.op \notin {"get_access_token", "store_tokens",
                                  "clear_credentials"}]_vars

C2_Witness ==
    \E t, u \in Threads :
        pc[t] = "gat_post" /\ pc[u] \in {"gat_wait", "st_wait", "cc_wait"}

C4_InvalidRefreshToken ==
    [][(ev'.op = "get_access_token" /\ ev'.kind = "http"
        /\ ev'.status \in {400, 401}) =>
            /\ Signalled(ev')
            /\ ev'.refresh = "False"
            /\ UNCHANGED <<credentials, claude_file, pulse_file>>]_vars

C4_Witness ==
    /\ ev.op = "get_access_token" /\ ev.kind = "http" /\ ev.status = 401
    /\ on_reauth_needed /\ ev.reauth = 1 /\ ev.refresh = "False"

\* C5: a refresh answered 403 or 5xx, or ending in a network error, never calls
\* the re-auth callback, makes the refresh return False, and leaves the
\* credential in memory and both store files as they were.
C5_TransientFailure ==
    [][(/\ ev'.op = "get_access_token"
        /\ \/ ev'.kind = "error"
           \/ (ev'.kind = "http" /\ (ev'.status = 403 \/ ev'.status >= 500))) =>
            /\ ev'.reauth = 0
            /\ ev'.refresh = "False"
            /\ UNCHANGED <<credentials, claude_file, pulse_file>>]_vars

C5_Witness ==
    /\ ev.op = "get_access_token" /\ ev.kind = "http" /\ ev.status = 403
    /\ on_reauth_needed /\ ev.reauth = 0 /\ ev.refresh = "False"

\* C6: a refresh answered 200 with an access_token makes the credential carry
\* that access_token, the response's refresh_token if it has one and else the
\* one held before, and expires_at = now + expires_in; the refresh returns True
\* and get_access_token() the new access token.
C6_SuccessfulRefresh ==
    [][(/\ ev'.op = "get_access_token" /\ ev'.kind = "http" /\ ev'.status = 200
        /\ "access_token" \in DOMAIN ev'.body) =>
            /\ credentials'.access_token = ev'.body.access_token
            /\ credentials'.refresh_token =
                   IF "refresh_token" \in DOMAIN ev'.body
                   THEN ev'.body.refresh_token ELSE credentials.refresh_token
            /\ "expires_in" \in DOMAIN ev'.body =>
                   credentials'.expires_at = now' + ev'.body.expires_in
            /\ ev'.refresh = "True"
            /\ ev'.returned = ev'.body.access_token]_vars

C6_Witness ==
    /\ ev.op = "get_access_token" /\ ev.kind = "http" /\ ev.status = 200
    /\ ev.refresh = "True"
    /\ "refresh_token" \notin DOMAIN ev.body /\ "expires_in" \in DOMAIN ev.body
    /\ credentials.refresh_token = "rt0"
    /\ credentials.expires_at = now + 60
    /\ ev.returned = credentials.access_token

\* C7: a get_access_token() call on a held credential attempts a refresh iff
\* now > expires_at - 300 when it checks, and a call attempts at most one
\* refresh: one POST at most when it enters, none when the response is handled.
C7_RefreshOnlyInWindow ==
    [][\A t \in Threads :
        /\ (Enters(t) /\ Held(credentials)) =>
              ((ev'.post = 1 \/ ev'.refresh # "none") <=> InWindow(credentials, now))
        /\ (pc[t] = "gat_post" /\ pc'[t] # "gat_post") =>
              (ev'.post = 0 /\ pc'[t] = "idle")
        /\ ev'.post <= 1]_vars

C7_Witness ==
    /\ ev.op = "get_access_token" /\ ev.refresh = "none" /\ ev.post = 0
    /\ Held(credentials) /\ ev.returned = credentials.access_token
    /\ now = credentials.expires_at - 300

\* C8: with no credentials held, get_access_token() returns None at once: no
\* POST, no call of the re-auth callback, no change of the manager or the files.
C8_NoCredentials ==
    [][\A t \in Threads :
        (Enters(t) /\ ~Held(credentials)) =>
            /\ pc'[t] = "idle"
            /\ ev'.op = "get_access_token" /\ ev'.returned = None
            /\ ev'.raised = "none"
            /\ ev'.post = 0 /\ ev'.reauth = 0 /\ ev'.refresh = "none"
            /\ UNCHANGED <<credentials, using_claude_code, on_reauth_needed, lock,
                           claude_file, pulse_file, now>>]_vars

C8_Witness ==
    /\ ev.op = "get_access_token" /\ ev.returned = None
    /\ ev.post = 0 /\ ev.reauth = 0 /\ credentials = NoCredentials

\* C9: when a refresh is needed and the credential has no refresh token, the
\* refresh calls the re-auth callback once, returns False at once and sends no
\* POST.
C9_NoRefreshToken ==
    [][\A t \in Threads :
        (/\ Enters(t) /\ Held(credentials)
         /\ InWindow(credentials, now) /\ NoRefreshToken(credentials)) =>
            /\ Signalled(ev')
            /\ ev'.refresh = "False"
            /\ ev'.post = 0 /\ ev'.kind = "none"
            /\ pc'[t] = "idle"]_vars

C9_Witness ==
    /\ ev.op = "get_access_token" /\ ev.kind = "none" /\ ev.refresh = "False"
    /\ on_reauth_needed /\ ev.reauth = 1 /\ ev.post = 0
    /\ Held(credentials) /\ NoRefreshToken(credentials)

\* C10: a step calls the re-auth callback (once) exactly when a callback is
\* registered and the step is a refresh attempt of get_access_token() that
\* found no refresh token or was answered 400 or 401; no other response and no
\* other operation calls it.
C10_ReauthExactly ==
    [][/\ ev'.reauth \in {0, 1}
       /\ ev'.reauth = 1 <=>
            /\ on_reauth_needed
            /\ ev'.op = "get_access_token"
            /\ \/ (/\ ev'.kind = "none" /\ Held(credentials)
                    /\ InWindow(credentials, now) /\ NoRefreshToken(credentials))
               \/ (ev'.kind = "http" /\ ev'.status \in {400, 401})]_vars

C10_Witness ==
    /\ ev.op = "get_access_token" /\ ev.kind = "http" /\ ev.status = 400
    /\ on_reauth_needed /\ ev.reauth = 1

\* C11: once the re-auth callback was called, every get_access_token() call
\* that ends before store_tokens() or clear_credentials() is called, and whose
\* refresh does not succeed, returns, and returns the access token that was
\* held when the callback was called.
C11_StaleTokenAfterReauth ==
    [][(/\ reauth_required # "-"
        /\ ev'.op = "get_access_token" /\ ev'.refresh # "True") =>
            /\ ev'.raised = "none"
            /\ ev'.returned = reauth_required]_vars

\* C12: get_access_token() never raises: whatever the refresh it attempted
\* came back with, and whether or not the store files could be written, the
\* call returns a token or None.
C12_NeverRaises ==
    ev.op = "get_access_token" => (ev.raised = "none" /\ ev.returned # "-")

\* file g is file f with nothing changed but accessToken, refreshToken and
\* expiresAt of its nested OAuth object, which are those of credential c
PatchOf(f, g, c) ==
    /\ "claudeAiOauth" \in DOMAIN f
    /\ DOMAIN g = DOMAIN f
    /\ \A k \in DOMAIN f \ {"claudeAiOauth"} : g[k] = f[k]
    /\ LET old == f.claudeAiOauth
           new == g.claudeAiOauth
           kept == DOMAIN old \ {"accessToken", "refreshToken", "expiresAt"}
       IN /\ DOMAIN new \ {"accessToken", "refreshToken", "expiresAt"} = kept
          /\ \A k \in kept : new[k] = old[k]
          /\ new.accessToken = c.access_token
          /\ new.expiresAt = c.expires_at * 1000
          /\ IF NoRefreshToken(c)
             THEN /\ "refreshToken" \in DOMAIN new <=> "refreshToken" \in DOMAIN old
                  /\ "refreshToken" \in DOMAIN old => new.refreshToken = old.refreshToken
             ELSE new.refreshToken = c.refresh_token

\* the step is a get_access_token() whose refresh succeeded
RefreshSucceeds == ev'.op = "get_access_token" /\ ev'.refresh = "True"

C14_RoundTrip ==
    expiry.stage = "written" => expiry.written = expiry.expiresAt

\* C15: store_tokens(tokens), with tokens that carry an access_token and in
\* any state of the manager, returns True and installs the credential built
\* from tokens with the private store as its source: the private store is
\* written (unless the write fails) and the external store is not.
C15_StoreTokensAnyState ==
    [][(ev'.op = "store_tokens" /\ "access_token" \in DOMAIN ev'.body) =>
          /\ ev'.raised = "none" /\ ev'.returned = "True"
          /\ credentials'.access_token = ev'.body.access_token
          /\ ~using_claude_code'
          /\ claude_file' = claude_file
          /\ pulse_file' \in {credentials', Corrupt}]_vars

\* C16 as stated: after clear_credentials() no credential is held, the private
\* store file does not exist and the external store file is as it was.
C16_ClearRemovesAll ==
    [][ev'.op = "clear_credentials" =>
          /\ credentials' = NoCredentials /\ ~Held(credentials')
          /\ pulse_file' = Absent
          /\ claude_file' = claude_file]_vars

\* C16, amended: after clear_credentials() no credential is held and the
\* external store file is as it was; the private store file does not exist
\* unless its removal failed, a failure clear_credentials() ignores: then the
\* file is left as it was.
C16_ClearUnlessRemoveFails ==
    [][ev'.op = "clear_credentials" =>
          /\ credentials' = NoCredentials /\ ~Held(credentials')
          /\ ev'.raised = "none"
          /\ pulse_file' = IF "remove" \in ev'.caught THEN pulse_file ELSE Absent
          /\ "remove" \in ev'.caught => pulse_file # Absent
          /\ claude_file' = claude_file]_vars

C16_Witness ==
    /\ ev.op = "clear_credentials" /\ ev.caught = {}
    /\ credentials = NoCredentials
    /\ pulse_file = Absent
    /\ using_claude_code
    /\ claude_file \notin {Absent, Corrupt}
    /\ claude_file.claudeAiOauth.accessToken = "at1"

\* the external store file is present and well-formed: a JSON object whose
\* nested OAuth object has an access token and, if any, a numeric expiresAt
WellFormedExternal(f) ==
    /\ f \notin {Absent, Corrupt, JsonList}
    /\ "claudeAiOauth" \in DOMAIN f
    /\ f.claudeAiOauth # JsonNull
    /\ "accessToken" \in DOMAIN f.claudeAiOauth
    /\ f.claudeAiOauth.accessToken \notin {None, ""}
    /\ "expiresAt" \in DOMAIN f.claudeAiOauth => IsNumber(f.claudeAiOauth.expiresAt)

\* C17: constructed on a well-formed external store file the manager holds
\* the credential of that file with the external store as its source, whatever
\* the private store file holds; the private store file is the source only
\* when the external one is absent or unusable.
C17_LoadPriority ==
    [][ev'.op = "__init__" =>
          /\ WellFormedExternal(claude_file) =>
                /\ ev'.raised = "none" /\ ev'.returned = "True"
                /\ using_claude_code'
                /\ credentials'.access_token = claude_file.claudeAiOauth.accessToken
                /\ credentials'.refresh_token =
                       (IF "refreshToken" \in DOMAIN claude_file.claudeAiOauth
                        THEN claude_file.claudeAiOauth.refreshToken ELSE None)
                /\ credentials'.expires_at * 1000 =
                       (IF "expiresAt" \in DOMAIN claude_file.claudeAiOauth
                        THEN claude_file.claudeAiOauth.expiresAt ELSE 0)
          /\ (~using_claude_code' /\ credentials' # NoCredentials) =>
                /\ ~WellFormedExternal(claude_file)
                /\ credentials' = pulse_file
          /\ UNCHANGED <<claude_file, pulse_file>>]_vars

C17_Witness ==
    /\ ev.op = "__init__" /\ ev.returned = "True"
    /\ using_claude_code
    /\ Held(pulse_file) /\ pulse_file.expires_at = 900
    /\ Held(credentials) /\ credentials.expires_at = 1300
    /\ credentials.scope = "user:inference user:profile"

\* C18: whatever the two store files hold, constructing the manager raises
\* nothing, and when neither file gives a credential with an access token the
\* manager holds no credential and the load has reported failure.
C18_LoadNeverRaises ==
    [][ev'.op = "__init__" =>
          /\ ev'.raised = "none"
          /\ ~Held(credentials') =>
                (credentials' = NoCredentials /\ ev'.returned = "False")]_vars

\* C19: get_token_info() returns None iff no credential record is held;
\* otherwise has_access_token and has_refresh_token say whether the credential
\* has such a token, expires_in_seconds is max(0, expires_at - now),
\* is_expired is now > expires_at, scope and source are the credential's; the
\* call changes no state.
C19_TokenInfo ==
    [][ev'.op = "get_token_info" =>
          /\ ev'.returned = None <=> credentials \in {NoCredentials, JsonList}
          /\ ev'.returned # None =>
                /\ ev'.info.has_access_token = Held(credentials)
                /\ ev'.info.has_refresh_token = ~NoRefreshToken(credentials)
                /\ ev'.info.expires_in_seconds =
                       (IF credentials.expires_at > now
                        THEN credentials.expires_at - now ELSE 0)
                /\ ev'.info.is_expired = (now > credentials.expires_at)
                /\ ev'.info.scope = credentials.scope
                /\ ev'.info.using_claude_code = using_claude_code
          /\ UNCHANGED <<credentials, using_claude_code, on_reauth_needed, lock,
                         claude_file, pulse_file, now, pc>>]_vars

\* the response get_response() returned last
HasResponse == usage # NoUsage /\ usage.response # NoUsageResponse
PacingDefined == "pacing_ratio" \in DOMAIN usage.response
WeeklyAbsent == "weekly_usage_percent" \notin DOMAIN usage.response

\* C20: in every response budget_status is "under" iff pacing_ratio is defined
\* and below 1, "over" iff it is defined and at least 1, "unknown" iff the
\* weekly percent of the response is absent or week_elapsed_percent is 0;
\* pacing_ratio is undefined exactly when the status is "unknown", and when
\* defined it is weekly_usage_percent / week_elapsed_percent.
C20_PacingPartition ==
    HasResponse =>
        LET r == usage.response IN
        /\ r.budget_status \in {"under", "over", "unknown"}
        /\ r.budget_status = "under" <=>
              (PacingDefined /\ r.pacing_ratio.n < r.pacing_ratio.d)
        /\ r.budget_status = "over" <=>
              (PacingDefined /\ r.pacing_ratio.n >= r.pacing_ratio.d)
        /\ r.budget_status = "unknown" <=>
              (WeeklyAbsent \/ r.week_elapsed_percent.n = 0)
        /\ r.budget_status = "unknown" <=> ~PacingDefined
        /\ PacingDefined =>
              /\ r.pacing_ratio.d > 0 /\ r.week_elapsed_percent.d > 0
              /\ r.pacing_ratio.n * r.week_elapsed_percent.n
                     = r.weekly_usage_percent * r.week_elapsed_percent.d
                       * r.pacing_ratio.d

C20_Witness ==
    /\ HasResponse /\ PacingDefined
    /\ usage.response.budget_status = "over"
    /\ usage.response.pacing_ratio.n = usage.response.pacing_ratio.d
    /\ "weekly_usage_percent" \notin DOMAIN usage.data

\* the instants, in UTC hours, that the clock reading and a datetime stand for;
\* a naive datetime is in the zone of the host
NowInstant == usage.clock - usage.zone
ResetInstant(t) ==
    IF "utcoffset" \in DOMAIN t THEN t.wall - t.utcoffset ELSE t.wall - usage.zone

\* 100 * (now - (reset - 7 days)) / 7 days clamped to [0,100], in 168ths
ClampedElapsed(t) ==
    LET elapsed == NowInstant - (ResetInstant(t) - 168)
    IN IF elapsed >= 168 THEN 100 * 168
       ELSE IF elapsed <= 0 THEN 0
       ELSE elapsed * 100

InRange(percent) == percent.d > 0 /\ 0 <= percent.n /\ percent.n <= 100 * percent.d

\* C21: for every now and every weekly_reset_time the week-elapsed percentage
\* of a response lies in [0,100]; with a known reset time it is
\* 100 * (now - (reset - 7 days)) / 7 days clamped to [0,100] (exactly 100 for
\* a reset time in the past, 0 for one 7 or more days ahead).
C21_WeekElapsedClamp ==
    HasResponse =>
        LET percent == usage.response.week_elapsed_percent IN
        /\ InRange(percent)
        /\ (usage.data # NoData /\ "weekly_reset_time" \in DOMAIN usage.data) =>
              percent.n * 168 = ClampedElapsed(usage.data.weekly_reset_time) * percent.d

\* a response computed from a stored snapshot
FromSnapshot == HasResponse /\ usage.data # NoData

\* the positions of the model_limits entries named "all"
AllEntries(data) ==
    IF "model_limits" \in DOMAIN data
    THEN {i \in 1..Len(data.model_limits) : data.model_limits[i].model_name = "all"}
    ELSE {}

\* C22: the weekly percentage of a response, and of its pacing ratio, is the
\* snapshot's weekly_usage_percent whenever that is present (0 included),
\* otherwise the usage_percent of the first model_limits entry named "all",
\* otherwise absent.
C22_WeeklyPercentResolution ==
    FromSnapshot =>
        LET data == usage.data
            r == usage.response
            first == CHOOSE i \in AllEntries(data) :
                         \A j \in AllEntries(data) : i <= j
        IN /\ "weekly_usage_percent" \in DOMAIN data =>
                /\ ~WeeklyAbsent
                /\ r.weekly_usage_percent = data.weekly_usage_percent
           /\ ("weekly_usage_percent" \notin DOMAIN data /\ AllEntries(data) # {}) =>
                /\ ~WeeklyAbsent
                /\ r.weekly_usage_percent = data.model_limits[first].usage_percent
           /\ ("weekly_usage_percent" \notin DOMAIN data /\ AllEntries(data) = {}) =>
                WeeklyAbsent
           /\ PacingDefined =>
                r.pacing_ratio.n * r.week_elapsed_percent.n
                  = r.weekly_usage_percent * r.week_elapsed_percent.d
                      * r.pacing_ratio.d

C22_Witness ==
    /\ FromSnapshot
    /\ "weekly_usage_percent" \notin DOMAIN usage.data
    /\ "model_limits" \in DOMAIN usage.data
    /\ Len(usage.data.model_limits) = 3
    /\ ~WeeklyAbsent
    /\ usage.response.weekly_usage_percent = 50
    /\ PacingDefined

\* C23: session_reset_formatted is "{h}h {m}m" with h = seconds div 3600 and
\* m = (seconds mod 3600) div 60 for every positive session_reset_seconds
\* (3661 gives "1h 1m", 59 gives "0h 0m", 5400 gives "1h 30m"), and is absent
\* when session_reset_seconds is 0 or absent.
C23_ResetFormatted ==
    FromSnapshot =>
        LET data == usage.data
            r == usage.response
            secs == data.session_reset_seconds
            formatted == "session_reset_formatted" \in DOMAIN r
        IN IF "session_reset_seconds" \in DOMAIN data /\ secs > 0
           THEN /\ formatted
                /\ r.session_reset_formatted
                     = ToString(secs \div 3600) \o "h "
                         \o ToString((secs % 3600) \div 60) \o "m"
                /\ secs = 3661 => r.session_reset_formatted = "1h 1m"
                /\ secs = 59 => r.session_reset_formatted = "0h 0m"
                /\ secs = 5400 => r.session_reset_formatted = "1h 30m"
           ELSE ~formatted

C23_Witness ==
    /\ FromSnapshot
    /\ "session_reset_formatted" \in DOMAIN usage.response
    /\ usage.data.session_reset_seconds = 3661
    /\ usage.response.session_reset_formatted = "1h 1m"

\* C24: a get_token_info call that runs while other threads refresh, store or
\* clear never raises, and the dict it returns is the one a single value,
\* held by self._credentials at some instant of the call, gives.
C24_ConsistentRead ==
    [][ (ev'.op = "get_token_info" /\ info # NoRead) =>
          /\ ev'.raised = "none"
          /\ ev'.returned = "info" =>
                \E c \in info.held :
                    /\ ~Falsy(c)
                    /\ ev'.info = TokenInfo(c, using_claude_code, info.current_time)
      ]_vars

\* C25: every get_access_token call ends, the lock released, once the network
\* request has returned, also when the re-auth callback it signals calls
\* get_access_token, store_tokens or clear_credentials on the same manager.
C25_CallEnds ==
    \A t \in Threads :
        (pc[t] \in {"gat_wait", "gat_post"}) ~> (pc[t] = "idle" /\ lock # t)

\* the step is the exit of one of the three locked operations
Exits == ev'.op \in {"get_access_token", "store_tokens", "clear_credentials"}

\* the step assigned a new credential: a refresh succeeded, store_tokens returned
Updates ==
    \/ RefreshSucceeds
    \/ ev'.op = "store_tokens" /\ ev'.raised = "none"

\* c is all of the credential that tokens, received at time, makes of old
CompleteNew(c, old, tokens, time) ==
    /\ DOMAIN c = {"access_token", "refresh_token", "expires_at", "token_type",
                   "scope"}
    /\ c.access_token = tokens.access_token
    /\ c.refresh_token = IF "refresh_token" \in DOMAIN tokens THEN tokens.refresh_token
                         ELSE IF "refresh_token" \in DOMAIN old THEN old.refresh_token
                         ELSE None
    /\ c.expires_at = time + (IF "expires_in" \in DOMAIN tokens
                              THEN tokens.expires_in ELSE 3600)
    /\ c.token_type = (IF "token_type" \in DOMAIN tokens THEN tokens.token_type
                       ELSE "Bearer")
    /\ c.scope = (IF "scope" \in DOMAIN tokens THEN tokens.scope
                  ELSE "user:inference user:profile")

C27_NoRefreshRightAfterRefresh ==
    [][ \A t \in Threads :
          (last_refresh # "-" /\ pc[t] = "gat_wait" /\ pc'[t] # "gat_wait") =>
              /\ ev'.post = 0
              /\ ev'.returned = last_refresh ]_vars

\* the latest of a set of instants
Latest(times) == CHOOSE x \in times : \A y \in times : y <= x

\* C28: check-refresh answers refresh_requested = true iff at least one
\* request-refresh came since the last check that answered true (or since
\* the start), with the time of the latest of them; it clears the flag, so
\* that the next check without a request in between answers false.
C28_ReportedOnce ==
    [][ refresh_flag'.reply.op = "check_refresh" =>
          /\ refresh_flag'.reply.refresh_requested <=> refresh_flag.requests # {}
          /\ refresh_flag'.reply.refresh_requested =>
                refresh_flag'.reply.requested_at
                  = "T" \o ToString(Latest(refresh_flag.requests))
          /\ refresh_flag'.pending = <<>>
          /\ refresh_flag'.requests = {} ]_vars

C28_Witness ==
    /\ refresh_flag # NoRefresh
    /\ refresh_flag.reply.op = "check_refresh"
    /\ refresh_flag.reply.refresh_requested
    /\ refresh_flag.reply.requested_at = "T2"
    /\ refresh_flag.clock = 3
    /\ refresh_flag.requests = {}
    /\ refresh_flag.pending = <<>>

\* the dashboard processes that run
Alive == {n \in Dashboards : dashboard.state[n] \in {"starting", "shown"}}

\* C29: at most one dashboard process is alive at any time: an activation of
\* "Open Dashboard" launches a process only when no dashboard launched before
\* still runs.
C29_OneDashboard ==
    [][ /\ dashboard'.launched # NoProcess => Alive = {}
        /\ Cardinality(Alive) <= 1 ]_vars

\* the pair of calls this step completes takes the session usage from below
\* 95 to 95 or above
Reaches95 ==
    /\ notifier.session # <<>>
    /\ notifier'.session # <<>>
    /\ notifier.session[1] < 95
    /\ notifier'.session[1] >= 95

\* C30: with notifications available and threshold_95 on, a call that takes
\* the session usage from below 95 (below 90 included) to 95 or above shows
\* the 95% notification, and every call shows at most one of the reset, 90%
\* and 95% notifications.
C30_Notify95 ==
    [][ notifier' # notifier =>
          /\ (CanNotify(notifier) /\ notifier.settings.threshold_95
                  /\ Reaches95)
                => "threshold_95" \in notifier'.toasts
          /\ Cardinality(notifier'.toasts
                  \cap {"reset", "threshold_90", "threshold_95"}) <= 1 ]_vars

====
